---------------------------- MODULE Spec2Model ----------------------------
(***************************************************************************)
(* Model of src/main.py: the text chunker _chunk_text and the HTTP handler *)
(* synthesize_speech that drives chunking, per-segment synthesis, audio    *)
(* concatenation and upload.                                               *)
(*                                                                         *)
(* A text is a sequence of one-character strings.  Indices in the helper   *)
(* operators are 0-based, as in the Python source; -1 is str.find's        *)
(* "not found".                                                            *)
(***************************************************************************)
EXTENDS Integers, Sequences, FiniteSets, TLC

(***************************************************************************)
(* Bounds of the model.                                                    *)
(***************************************************************************)
\* longest input text handed to the chunker on its own
MaxTextLen == 4
\* largest max_length / min_length argument tried for the chunker
MaxMaxLength == 3
MaxMinLength == 3
\* number of handler invocations that may be in flight together
NumInvocations == 2
\* the handler calls _chunk_text(content) with the defaults max_length=3000,
\* min_length=250 (src/main.py:61-62); the model scales both down so that
\* short contents split into several segments
HandlerMaxLength == 3
HandlerMinLength == 2

Alphabet == {"a", ".", " "}

\* all texts over Alphabet of length 0..MaxTextLen
Texts == UNION {[1..n -> Alphabet] : n \in 0..MaxTextLen}

\* the loop of _chunk_text appends one block per iteration; with
\* max_length = 0 it may go round for ever, so the model stops it here
MaxIterations == MaxTextLen + 3

VARIABLES
    \* ---- _chunk_text run on its own (arguments, locals, position)
    text, max_length, min_length, rest, blocks, cpc, lookup_failed,
    \* ---- synthesize_speech, one entry per invocation
    pc, basename, created, pitch, text_blocks, i, status, voiceUrl,
    missing, synth_calls, concat_calls, upload_calls, canceled_at,
    concat_failed,
    \* ---- the host's temp directory and the bucket, shared by invocations
    dirs, files, blobs, mkdir_count, upload_count

chunkVars == <<text, max_length, min_length, rest, blocks, cpc, lookup_failed>>
invVars == <<pc, basename, created, pitch, text_blocks, i, status, voiceUrl,
             missing, synth_calls, concat_calls, upload_calls, canceled_at,
             concat_failed>>
hostVars == <<dirs, files, blobs, mkdir_count, upload_count>>
vars == <<chunkVars, invVars, hostVars>>

(***************************************************************************)
(* Python string primitives used by _chunk_text.                           *)
(***************************************************************************)
MinOf(S) == CHOOSE k \in S : \A j \in S : k <= j

\* a slice bound as Python normalises it: negative counts from the end,
\* anything outside 0..n is clipped
SliceBound(n, idx) ==
    IF idx < 0 THEN (IF n + idx < 0 THEN 0 ELSE n + idx)
    ELSE (IF idx > n THEN n ELSE idx)

\* s[b:e]
Slice(s, b, e) ==
    LET lo == SliceBound(Len(s), b)
        hi == SliceBound(Len(s), e)
    IN  IF hi <= lo THEN <<>> ELSE SubSeq(s, lo + 1, hi)

\* faulty variant: the search forgets its start offset (rest.find("."))
find_FromZero(s, ch, start) ==
    LET hits == {k \in 0..(Len(s) - 1) : s[k + 1] = ch}
    IN  IF hits = {} THEN -1 ELSE MinOf(hits)

\* s.find(ch, start), start >= 0: lowest index >= start holding ch, or -1
find(s, ch, start) ==
    LET hits == {k \in start..(Len(s) - 1) : s[k + 1] = ch}
    IN  IF hits = {} THEN -1 ELSE MinOf(hits)

(***************************************************************************)
(* _chunk_text, src/main.py:60-90.                                         *)
(***************************************************************************)
\* faulty variant: the loop also runs when the text is exactly max_length long
LoopCond_AtLeast(r, maxlen) == Len(r) >= maxlen

\* line 73: while (len(rest) > max_length)
LoopCond(r, maxlen) == Len(r) > maxlen

\* lines 75-78: the "." at or after max_length, else the " ", else -1
SplitPoint(r, maxlen) ==
    LET end == find(r, ".", maxlen)
    IN  IF end = -1 THEN find(r, " ", maxlen) ELSE end

\* line 80: segment = rest[begin:end] with begin = 0
Segment(r, end) == Slice(r, 0, end)

\* faulty variant: the split character is consumed (rest[end+1:])
RestAfter_Consuming(r, end) == Slice(r, end + 1, Len(r))

\* line 81: rest = rest[end:]
RestAfter(r, end) == Slice(r, end, Len(r))

\* lines 84-88: the remainder becomes the last block, or is merged into it
AppendRest(bs, r, minlen) ==
    IF Len(r) > 0
    THEN IF Len(r) < minlen /\ Len(bs) > 0
         THEN [bs EXCEPT ![Len(bs)] = bs[Len(bs)] \o r]
         ELSE Append(bs, r)
    ELSE bs

\* lines 73-82 run to completion: <<rest, text_blocks>> after the loop
RECURSIVE ChunkLoopRun(_, _, _)
ChunkLoopRun(r, bs, maxlen) ==
    IF LoopCond(r, maxlen)
    THEN LET end == SplitPoint(r, maxlen)
         IN  ChunkLoopRun(RestAfter(r, end), Append(bs, Segment(r, end)), maxlen)
    ELSE <<r, bs>>

\* _chunk_text(text, max_length, min_length) as a function (max_length >= 1)
chunk_text(t, maxlen, minlen) ==
    LET after == ChunkLoopRun(t, <<>>, maxlen)
    IN  AppendRest(after[2], after[1], minlen)

(***************************************************************************)
(* _chunk_text run step by step: one action per loop iteration, one for    *)
(* the code after the loop.                                                *)
(***************************************************************************)
\* lines 73-82, one iteration
ChunkLoop ==
    /\ cpc = "loop"
    /\ LoopCond(rest, max_length)
    /\ Len(blocks) < MaxIterations
    /\ LET end == SplitPoint(rest, max_length)
       IN  /\ blocks' = Append(blocks, Segment(rest, end))
           /\ rest' = RestAfter(rest, end)
           /\ lookup_failed' = (lookup_failed \/ end = -1)
    /\ UNCHANGED <<text, max_length, min_length, cpc, invVars, hostVars>>

\* lines 84-90, once the loop condition is false
ChunkReturn ==
    /\ cpc = "loop"
    /\ ~LoopCond(rest, max_length)
    /\ blocks' = AppendRest(blocks, rest, min_length)
    /\ cpc' = "returned"
    /\ UNCHANGED <<text, max_length, min_length, rest, lookup_failed,
                   invVars, hostVars>>

(***************************************************************************)
(* synthesize_speech, src/main.py:92-162.                                  *)
(***************************************************************************)
Inv == 1..NumInvocations

\* the values uuid.uuid4() may return; two invocations may draw the same
UUIDs == {"u1", "u2"}

Fields == {"content", "contentType", "langCode", "voiceId", "pitch",
           "speakingRate", "volumeGainDb"}

\* request contents: empty, one segment, several segments
Contents == { <<>>,
              <<"a", "b">>,
              <<"a", "a", "a", ".", "a", "a", "a", ".", "a", "a">> }

\* the fields present in the query string / in the JSON body
ArgShapes == {{}, Fields, Fields \ {"speakingRate"}, {"content"}}
BodyShapes == {{}, Fields, Fields \ {"voiceId"}, Fields \ {"content"}}

\* a request: query arguments (strings), what get_json() gives ("none":
\* no JSON body, "invalid": it raises ValueError, "dict": a JSON object with
\* well-typed values), and the content text carried by whichever holds it
Requests ==
    {r \in [args : ArgShapes, json : {"none", "invalid", "dict"},
            body : BodyShapes, content : Contents] :
        r.json # "dict" => r.body = {}}

IntStr == <<"0", "1", "2", "3", "4", "5", "6", "7", "8", "9">>

\* line 95: os.path.join(gettempdir(), basename)
TempDir(b) == <<"tmp", b>>

\* faulty variant: the file name does not depend on the index
ChunkFile_Fixed(k) == <<IntStr[1], ".mp3">>

\* lines 134, 148: "{0}.mp3".format(i)
ChunkFile(k) == <<IntStr[k + 1], ".mp3">>

\* lines 149, 154: "audio.wav"
AudioWav == <<"audio", ".wav">>

\* lines 154, 160: "{0}.wav".format(basename)
BlobName(b) == <<b, ".wav">>

NoUrl == <<>>

\* faulty variant: an existing directory is accepted (makedirs(exist_ok=True))
MkdirFails_Never(d) == FALSE

\* line 97: os.mkdir raises OSError when the directory exists
MkdirFails(d) == d \in dirs

\* line 34: "%+f" % pitch raises TypeError unless pitch is a number; a
\* query argument is a string, a missing one is None
TextToSsmlRaises(p_kind) == p_kind # "num"

\* faulty variant: the result is compared with the wrong reason
IsCanceled_ErrorOnly(reason) == reason = "Error"

\* line 138: result.reason == ResultReason.Canceled
IsCanceled(reason) == reason = "Canceled"

\* line 147-148: the inputs handed to ffmpeg.concat
ConcatInputs(n) == [k \in 1..n |-> ChunkFile(k - 1)]

\* a file written (or overwritten) in directory d
WriteFile(fs, d, nm, data) ==
    {f \in fs : ~(f.dir = d /\ f.name = nm)}
        \cup {[dir |-> d, name |-> nm, data |-> data]}

FileExists(fs, d, nm) == \E f \in fs : f.dir = d /\ f.name = nm

\* the invocation ends with this status (a return, or an uncaught raise)
Finish(p, st) ==
    /\ pc' = [pc EXCEPT ![p] = "done"]
    /\ status' = [status EXCEPT ![p] = st]

\* line 93: basename = str(uuid.uuid4())
Start(p) ==
    /\ pc[p] = "start"
    /\ \E u \in UUIDs : basename' = [basename EXCEPT ![p] = u]
    /\ pc' = [pc EXCEPT ![p] = "mkdir"]
    /\ UNCHANGED <<created, pitch, text_blocks, i, status, voiceUrl, missing,
                   synth_calls, concat_calls, upload_calls, canceled_at,
                   concat_failed, hostVars, chunkVars>>

\* lines 95-100
Mkdir(p) ==
    /\ pc[p] = "mkdir"
    /\ IF MkdirFails(TempDir(basename[p]))
       THEN /\ Finish(p, "500")
            /\ UNCHANGED <<created, dirs, mkdir_count>>
       ELSE /\ dirs' = dirs \cup {TempDir(basename[p])}
            /\ created' = [created EXCEPT ![p] = TRUE]
            /\ mkdir_count' = [mkdir_count EXCEPT ![basename[p]] = @ + 1]
            /\ pc' = [pc EXCEPT ![p] = "parse"]
            /\ UNCHANGED status
    /\ UNCHANGED <<basename, pitch, text_blocks, i, voiceUrl, missing,
                   synth_calls, concat_calls, upload_calls, canceled_at,
                   concat_failed, files, blobs, upload_count, chunkVars>>

\* the source the fields are read from: the query arguments when they hold
\* "content", otherwise the JSON body
ParseSource(r) == IF "content" \in r.args THEN r.args ELSE r.body

\* lines 105-130: parse the request, then chunk the content
Parse(p) ==
    /\ pc[p] = "parse"
    /\ \E r \in Requests :
        /\ missing' = [missing EXCEPT ![p] = ~(Fields \subseteq ParseSource(r))]
        /\ IF r.json = "invalid"
           THEN \* line 126: ValueError from get_json
                /\ Finish(p, "500")
                /\ UNCHANGED <<pitch, text_blocks>>
           ELSE IF r.args # {} /\ "content" \in r.args
           THEN \* lines 108-114: args.get gives None for an absent field
                /\ pitch' = [pitch EXCEPT ![p] =
                                IF "pitch" \in r.args THEN "str" ELSE "None"]
                /\ text_blocks' = [text_blocks EXCEPT ![p] =
                      chunk_text(r.content, HandlerMaxLength, HandlerMinLength)]
                /\ pc' = [pc EXCEPT ![p] = "synth"]
                /\ UNCHANGED status
           ELSE IF r.json = "dict" /\ r.body # {} /\ "content" \in r.body
           THEN IF Fields \subseteq r.body
                THEN \* lines 116-122
                     /\ pitch' = [pitch EXCEPT ![p] = "num"]
                     /\ text_blocks' = [text_blocks EXCEPT ![p] =
                          chunk_text(r.content, HandlerMaxLength, HandlerMinLength)]
                     /\ pc' = [pc EXCEPT ![p] = "synth"]
                     /\ UNCHANGED status
                ELSE \* request_json[...] raises KeyError, which the
                     \* except ValueError clause does not catch
                     /\ Finish(p, "raised")
                     /\ UNCHANGED <<pitch, text_blocks>>
           ELSE \* line 124
                /\ Finish(p, "500")
                /\ UNCHANGED <<pitch, text_blocks>>
    /\ UNCHANGED <<basename, created, i, voiceUrl, synth_calls, concat_calls,
                   upload_calls, canceled_at, concat_failed, hostVars,
                   chunkVars>>

\* lines 131-143, one iteration of the loop over text_blocks
Synthesize(p) ==
    /\ pc[p] = "synth"
    /\ i[p] < Len(text_blocks[p])
    /\ IF TextToSsmlRaises(pitch[p])
       THEN \* line 132 raises before the provider is called
            /\ Finish(p, "raised")
            /\ UNCHANGED <<i, synth_calls, canceled_at, files>>
       ELSE /\ synth_calls' = [synth_calls EXCEPT ![p] = Append(@, i[p])]
            /\ \E reason \in {"SynthesizingAudioCompleted", "Canceled"} :
                /\ canceled_at' = [canceled_at EXCEPT ![p] =
                                      IF reason = "Canceled" THEN i[p] ELSE @]
                /\ IF IsCanceled(reason)
                   THEN \* line 143
                        /\ Finish(p, "500")
                        /\ UNCHANGED i
                   ELSE /\ i' = [i EXCEPT ![p] = @ + 1]
                        /\ UNCHANGED <<pc, status>>
                /\ \/ /\ reason = "SynthesizingAudioCompleted"
                      /\ files' = WriteFile(files, TempDir(basename[p]),
                                    ChunkFile(i[p]),
                                    [segs |-> <<i[p]>>, complete |-> TRUE])
                   \/ /\ reason = "Canceled"
                      /\ files' = WriteFile(files, TempDir(basename[p]),
                                    ChunkFile(i[p]),
                                    [segs |-> <<i[p]>>, complete |-> FALSE])
                   \/ /\ reason = "Canceled"
                      /\ UNCHANGED files
    /\ UNCHANGED <<basename, created, pitch, text_blocks, voiceUrl, missing,
                   concat_calls, upload_calls, concat_failed, dirs, blobs,
                   mkdir_count, upload_count, chunkVars>>

\* the segments held by the files named in a list of inputs
RECURSIVE ReadAll(_, _, _)
ReadAll(fs, d, names) ==
    IF names = <<>> THEN <<>>
    ELSE LET f == CHOOSE g \in fs : g.dir = d /\ g.name = Head(names)
         IN  f.data.segs \o ReadAll(fs, d, Tail(names))

\* lines 145-151, reached when the loop over text_blocks is over
Concat(p) ==
    /\ pc[p] = "synth"
    /\ i[p] >= Len(text_blocks[p])
    /\ LET n == Len(text_blocks[p])
           d == TempDir(basename[p])
           inputs == ConcatInputs(n)
       IN  /\ concat_calls' = [concat_calls EXCEPT ![p] = Append(@, inputs)]
           /\ \/ \* the tool succeeds: it needs inputs, and all of them
                 /\ n > 0
                 /\ \A k \in 1..n : FileExists(files, d, inputs[k])
                 /\ files' = WriteFile(files, d, AudioWav,
                               [segs |-> ReadAll(files, d, inputs),
                                complete |-> TRUE])
                 /\ pc' = [pc EXCEPT ![p] = "upload"]
                 /\ UNCHANGED <<status, concat_failed>>
              \/ \* lines 150-151: the tool ran and failed; ffmpeg.Error is
                 \* logged and the handler goes on; the tool may have left
                 \* a partial output
                 /\ n > 0
                 /\ concat_failed' = [concat_failed EXCEPT ![p] = TRUE]
                 /\ \/ UNCHANGED files
                    \/ files' = WriteFile(files, d, AudioWav,
                                  [segs |-> <<>>, complete |-> FALSE])
                 /\ pc' = [pc EXCEPT ![p] = "upload"]
                 /\ UNCHANGED status
              \/ \* any other exception is not caught (with no stream at
                 \* all, ffmpeg.concat has nothing to build a filter from
                 \* and the tool is never run)
                 /\ concat_failed' = [concat_failed EXCEPT ![p] = TRUE]
                 /\ Finish(p, "raised")
                 /\ UNCHANGED files
    /\ UNCHANGED <<basename, created, pitch, text_blocks, i, voiceUrl, missing,
                   synth_calls, upload_calls, canceled_at, dirs, blobs,
                   mkdir_count, upload_count, chunkVars>>

\* lines 153-162
Upload(p) ==
    /\ pc[p] = "upload"
    /\ LET d == TempDir(basename[p])
           nm == BlobName(basename[p])
       IN  /\ upload_calls' = [upload_calls EXCEPT ![p] = Append(@, nm)]
           /\ upload_count' = [upload_count EXCEPT ![basename[p]] = @ + 1]
           /\ \/ \* the upload succeeds: the local file must exist
                 /\ FileExists(files, d, AudioWav)
                 /\ blobs' = blobs \cup {nm}
                 /\ voiceUrl' = [voiceUrl EXCEPT ![p] = nm]
                 /\ Finish(p, "200")
              \/ \* lines 155-157: any exception of _upload_blob
                 /\ Finish(p, "500")
                 /\ UNCHANGED <<blobs, voiceUrl>>
    /\ UNCHANGED <<basename, created, pitch, text_blocks, i, missing,
                   synth_calls, concat_calls, canceled_at, concat_failed,
                   dirs, files, mkdir_count, chunkVars>>

\* the per-invocation state at entry to synthesize_speech
InvInit ==
    /\ pc = [p \in Inv |-> "start"]
    /\ basename = [p \in Inv |-> ""]
    /\ created = [p \in Inv |-> FALSE]
    /\ pitch = [p \in Inv |-> "None"]
    /\ text_blocks = [p \in Inv |-> <<>>]
    /\ i = [p \in Inv |-> 0]
    /\ status = [p \in Inv |-> "pending"]
    /\ voiceUrl = [p \in Inv |-> NoUrl]
    /\ missing = [p \in Inv |-> FALSE]
    /\ synth_calls = [p \in Inv |-> <<>>]
    /\ concat_calls = [p \in Inv |-> <<>>]
    /\ upload_calls = [p \in Inv |-> <<>>]
    /\ canceled_at = [p \in Inv |-> -1]
    /\ concat_failed = [p \in Inv |-> FALSE]

\* the handler has returned and the host calls it again for the next
\* request; the temp directory and the bucket keep what they hold
NextInvocation(p) ==
    /\ pc[p] = "done"
    /\ pc' = [pc EXCEPT ![p] = "start"]
    /\ basename' = [basename EXCEPT ![p] = ""]
    /\ created' = [created EXCEPT ![p] = FALSE]
    /\ pitch' = [pitch EXCEPT ![p] = "None"]
    /\ text_blocks' = [text_blocks EXCEPT ![p] = <<>>]
    /\ i' = [i EXCEPT ![p] = 0]
    /\ status' = [status EXCEPT ![p] = "pending"]
    /\ voiceUrl' = [voiceUrl EXCEPT ![p] = NoUrl]
    /\ missing' = [missing EXCEPT ![p] = FALSE]
    /\ synth_calls' = [synth_calls EXCEPT ![p] = <<>>]
    /\ concat_calls' = [concat_calls EXCEPT ![p] = <<>>]
    /\ upload_calls' = [upload_calls EXCEPT ![p] = <<>>]
    /\ canceled_at' = [canceled_at EXCEPT ![p] = -1]
    /\ concat_failed' = [concat_failed EXCEPT ![p] = FALSE]
    /\ UNCHANGED <<hostVars, chunkVars>>

HostInit ==
    /\ dirs = {}
    /\ files = {}
    /\ blobs = {}
    /\ mkdir_count = [u \in UUIDs |-> 0]
    /\ upload_count = [u \in UUIDs |-> 0]

ChunkOff ==
    /\ text = <<>>
    /\ max_length = HandlerMaxLength
    /\ min_length = HandlerMinLength
    /\ rest = <<>>
    /\ blocks = <<>>
    /\ cpc = "off"
    /\ lookup_failed = FALSE

(***************************************************************************)
(* Specifications.                                                         *)
(***************************************************************************)
\* the handler, invoked concurrently and repeatedly on one host
Init == ChunkOff /\ InvInit /\ HostInit

Next ==
    \E p \in Inv :
        \/ Start(p)
        \/ Mkdir(p)
        \/ Parse(p)
        \/ Synthesize(p)
        \/ Concat(p)
        \/ Upload(p)
        \/ NextInvocation(p)

Spec == Init /\ [][Next]_vars

\* _chunk_text on its own, for every text and every pair of bounds
ChunkInit ==
    /\ text \in Texts
    /\ max_length \in 0..MaxMaxLength
    /\ min_length \in 0..MaxMinLength
    /\ rest = text
    /\ blocks = <<>>
    /\ cpc = "loop"
    /\ lookup_failed = FALSE
    /\ InvInit
    /\ HostInit

ChunkNext == ChunkLoop \/ ChunkReturn

SpecChunk == ChunkInit /\ [][ChunkNext]_vars

\* the loop is sequential code: it keeps running while it can
SpecChunkLive == SpecChunk /\ WF_vars(ChunkNext)

(***************************************************************************)
(* Properties.                                                             *)
(***************************************************************************)
\* the blocks of a list joined in order
RECURSIVE Flatten(_)
Flatten(bs) == IF bs = <<>> THEN <<>> ELSE Head(bs) \o Flatten(Tail(bs))

\* the indices 0..n-1 in order
UpTo(n) == [k \in 1..n |-> k - 1]

\* C1: every invocation that created its workspace directory has removed it
\* when the handler has returned (or raised), whatever the exit path.
C1_WorkspaceRemoved ==
    \A p \in Inv :
        (pc[p] = "done" /\ created[p]) => TempDir(basename[p]) \notin dirs

\* C2: once the provider has reported a cancellation for segment k, the
\* handler has returned the failure response, the provider was called exactly
\* once for each of the segments 0..k and for no later one, and neither the
\* concatenation tool nor the upload was called.
C2_FailFast ==
    \A p \in Inv :
        canceled_at[p] # -1 =>
            /\ pc[p] = "done"
            /\ status[p] = "500"
            /\ voiceUrl[p] = NoUrl
            /\ synth_calls[p] = UpTo(canceled_at[p] + 1)
            /\ concat_calls[p] = <<>>
            /\ upload_calls[p] = <<>>

\* segment 2 of 3 was cancelled
C2_Witness ==
    \E p \in Inv :
        /\ canceled_at[p] = 1
        /\ Len(text_blocks[p]) = 3
        /\ pc[p] = "done"

\* C3: after a failure of the concatenation tool the upload is never
\* called and the invocation never ends with the success response.
C3_AssemblyFailureAborts ==
    \A p \in Inv :
        concat_failed[p] =>
            /\ upload_calls[p] = <<>>
            /\ status[p] # "200"
            /\ voiceUrl[p] = NoUrl

\* C4: for max_length >= 1, the blocks _chunk_text returns, joined in
\* order, are the input text.
C4_ConcatReconstructs ==
    (cpc = "returned" /\ max_length >= 1) => Flatten(blocks) = text

\* several blocks were returned, one of them cut where no boundary was found
C4_Witness ==
    /\ cpc = "returned"
    /\ max_length >= 1
    /\ lookup_failed
    /\ Len(blocks) >= 3

\* C5 as stated: every text of length <= max_length, the empty one included,
\* comes back as exactly one block equal to the text.
C5_OneSegmentAlways ==
    (cpc = "returned" /\ Len(text) <= max_length) => blocks = <<text>>

\* C5 amended: a non-empty text of length <= max_length comes back as exactly
\* one block equal to the text; the empty text comes back as no block.
C5_OneSegmentUnlessEmpty ==
    (cpc = "returned" /\ Len(text) <= max_length) =>
        IF text = <<>> THEN blocks = <<>> ELSE blocks = <<text>>

C5_Witness ==
    /\ cpc = "returned"
    /\ Len(text) >= 1
    /\ Len(text) = max_length
    /\ blocks = <<text>>

\* C6: when a loop iteration found neither "." nor " " at or after
\* max_length, _chunk_text does not return a list of blocks.
C6_ChunkingErrorRaised == lookup_failed => cpc # "returned"

\* C7: an invocation whose parsing source lacks one of the seven required
\* fields has ended with the failure response without any call to the
\* provider, the concatenation tool or the upload.
C7_MissingFieldFails ==
    \A p \in Inv :
        missing[p] =>
            /\ pc[p] = "done"
            /\ status[p] = "500"
            /\ synth_calls[p] = <<>>
            /\ concat_calls[p] = <<>>
            /\ upload_calls[p] = <<>>

\* C8: no two invocations have created the same workspace directory, called
\* the upload with the same blob name or returned the same voiceUrl, be they
\* in flight together or one after the other, and whatever identifiers they
\* drew.
C8_DistinctWorkspaces ==
    /\ \A p, q \in Inv :
          (p # q /\ created[p] /\ created[q]) => basename[p] # basename[q]
    /\ \A p, q \in Inv :
          p # q =>
            /\ \A a \in 1..Len(upload_calls[p]) :
                 \A b \in 1..Len(upload_calls[q]) :
                    upload_calls[p][a] # upload_calls[q][b]
            /\ voiceUrl[p] # NoUrl => voiceUrl[p] # voiceUrl[q]
    /\ \A u \in UUIDs : mkdir_count[u] <= 1 /\ upload_count[u] <= 1

\* two invocations drew the same identifier: one owns the workspace and has
\* published, the other did not get past creating it
C8_Witness ==
    \E p, q \in Inv :
        /\ p # q
        /\ basename[p] = basename[q]
        /\ created[p] /\ status[p] = "200"
        /\ ~created[q] /\ status[q] = "500"

\* C9: the provider is called for the segments 0, 1, 2, ... in this order,
\* once each; each completed synthesis of segment j has left its audio in the
\* file "j.mp3" of the workspace; and when the concatenation tool is called,
\* it is called once, with the files 0.mp3 .. (n-1).mp3 in this order, all n
\* segments having been synthesized without cancellation before.
C9_OrderedPipeline ==
    \A p \in Inv :
        LET n == Len(text_blocks[p])
            d == TempDir(basename[p])
        IN  /\ synth_calls[p] = UpTo(Len(synth_calls[p]))
            /\ Len(synth_calls[p]) =
                  IF canceled_at[p] = -1 THEN i[p] ELSE i[p] + 1
            /\ i[p] <= n
            /\ \A j \in 0..(i[p] - 1) :
                  [dir |-> d, name |-> <<IntStr[j + 1], ".mp3">>,
                   data |-> [segs |-> <<j>>, complete |-> TRUE]] \in files
            /\ concat_calls[p] # <<>> =>
                  /\ concat_calls[p] =
                        << [k \in 1..n |-> <<IntStr[k], ".mp3">>] >>
                  /\ i[p] = n
                  /\ synth_calls[p] = UpTo(n)
                  /\ canceled_at[p] = -1
            /\ \A f \in files :
                  (created[p] /\ f.dir = d /\ f.name = AudioWav
                              /\ f.data.complete) =>
                      f.data.segs = UpTo(n)

\* three segments went through synthesis, concatenation and upload
C9_Witness ==
    \E p \in Inv :
        /\ Len(text_blocks[p]) = 3
        /\ concat_calls[p] # <<>>
        /\ status[p] = "200"

\* C10: with max_length >= 1 every iteration of the loop strictly shortens
\* the remaining text, and _chunk_text returns; with max_length = 0 an
\* iteration that finds "." at offset 0 leaves the remaining text as it was.
C10_LoopTerminates ==
    /\ [][(ChunkLoop /\ max_length >= 1) => Len(rest') < Len(rest)]_vars
    /\ [][(ChunkLoop /\ max_length = 0 /\ rest # <<>> /\ Head(rest) = ".")
            => rest' = rest]_vars
    /\ (max_length >= 1) ~> (cpc = "returned")

\* the loop ran more than once, the last time on a failed lookup that left
\* one character, and the function returned
C10_Witness ==
    /\ cpc = "returned"
    /\ max_length >= 2
    /\ min_length = 0
    /\ lookup_failed
    /\ Len(blocks) >= 2
    /\ Len(blocks[Len(blocks)]) = 1

=============================================================================
